---- MODULE Spec2Model ----
(***************************************************************************)
(* Asteroid Insights Platform: the processing cycle of                     *)
(* AsteroidProcessor.process_data (src/src/asteroid_processor.py) and the  *)
(* two SQL store calls it drives, as a state machine.                      *)
(*                                                                         *)
(* One cycle is: fetch (with tenacity retry) -> archive the batch as a     *)
(* blob -> INSERT every record into raw_asteroid_data in one transaction   *)
(* -> INSERT one insight row per record into processed_asteroid_insights   *)
(* in one transaction -> optional Azure Function call.  Any exception      *)
(* leaves process_data (lines 525-527): the cycle is then "Failed".        *)
(***************************************************************************)
EXTENDS Integers, Sequences, FiniteSets, Bags, TLC

(* ------------------------------ bounds -------------------------------- *)
MaxCycles == 2      \* process_data invocations explored
MaxBatch  == 2      \* records returned by one fetch
NumIds    == 1      \* distinct object ids the feed can return

(* -------------------------- program constants ------------------------- *)
MaxAttempts == 3    \* @retry(stop=stop_after_attempt(3))

NoId == 0           \* asteroid.get('id') of a record without 'id' (None)
Ids  == 1..NumIds

\* A fetched record, reduced to what the store calls key on.
Records == [id : Ids \cup {NoId}]

RECURSIVE SeqsUpTo(_, _)
SeqsUpTo(S, n) ==
    IF n = 0 THEN {<<>>}
    ELSE LET shorter == SeqsUpTo(S, n - 1)
         IN  shorter \cup {Append(s, x) : s \in {t \in shorter : Len(t) = n - 1}, x \in S}

\* `asteroid_data[:10]`: the hook is sent the first 10 records
MaxHookRecords == 10

\* a batch longer than the hook takes: one more record than MaxHookRecords,
\* numbered among the ids in turn
LongBatch == [i \in 1..(MaxHookRecords + 1) |-> [id |-> ((i - 1) % NumIds) + 1]]

\* What the feed can hand back: the same object may appear on several dates.
Batches == SeqsUpTo(Records, MaxBatch) \cup {LongBatch}

Range(s) == {s[i] : i \in 1..Len(s)}

VARIABLES
    keyed,                        \* per table: the deployed schema enforces a key on id
    function_url,                 \* self.function_url is set
    pc,                           \* position of process_data
    cycle,                        \* process_data invocations so far
    attempts,                     \* calls of the feed by the running fetch_asteroid_data
    asteroid_data,                \* the batch of this cycle
    idx,                          \* next record of the store loop
    pending,                      \* rows executed but not yet committed (a bag)
    raw_asteroid_data,            \* committed rows of raw_asteroid_data (a bag)
    processed_asteroid_insights,  \* committed rows of processed_asteroid_insights
    blobs,                        \* names of the objects in 'asteroid-raw'
    trace,                        \* stages entered in this cycle, in order
    failedStage,                  \* stage whose exception ended the cycle
    rejected,                     \* ids whose INSERT the key rejected in this cycle
    hookCalls,                    \* _call_azure_function calls in this cycle
    hookFailed,                   \* the call raised inside _call_azure_function
    atStart,                      \* tables and container when the cycle started
    response,                     \* what the entry point answered for this cycle
    hookPayload,                  \* the records posted to the hook in this cycle
    call                          \* the last call of a pure helper: arguments and result

vars == <<keyed, function_url, pc, cycle, attempts, asteroid_data, idx,
          pending, raw_asteroid_data, processed_asteroid_insights, blobs,
          trace, failedStage, rejected, hookCalls, hookFailed, atStart,
          response, hookPayload, call>>

Stages == {"Fetching", "Archiving", "UpsertingRaw", "UpsertingInsights", "Done", "Failed"}

(* ------------------------- the SQL collaborator ----------------------- *)

\* A key on id rejects a NULL id and an id that already has a row, committed
\* or written earlier in the same transaction.
KeyViolation(isKeyed, table, uncommitted, id) ==
    /\ isKeyed
    /\ \/ id = NoId
       \/ \E r \in BagToSet(table) \cup BagToSet(uncommitted) : r.id = id

\* cursor.execute(sql, values): the statement is a plain INSERT.
InsertRow(uncommitted, row) == uncommitted (+) SetToBag({row})

\* faulty variant of Commit: the transaction is never made durable
CommitForgotten(table, uncommitted) == table

\* connection.commit()
Commit(table, uncommitted) == table (+) uncommitted

\* faulty variant of Rollback: the rows executed before the failure stay
\* (a connection in autocommit mode)
RollbackKeepsPartial(table, uncommitted) == table (+) uncommitted

\* connection.rollback()
Rollback(table, uncommitted) == table

\* values tuple of store_raw_data_sql: id column and fetched_at
\* (datetime.now() is read per cycle: the cycle number stands for it)
RawValues(asteroid, now) == [id |-> asteroid.id, at |-> now]

\* values tuple of store_processed_insights_sql: raw_asteroid_id and processed_at
InsightValues(asteroid, now) == [id |-> asteroid.id, at |-> now]

\* store_raw_data_blob: asteroid_data_<timestamp>.json, overwrite=True
UploadBlob(container, now) == container \cup {now}

(* --------------------- process_data's control flow -------------------- *)

\* the statement order of the try block, lines 503-523
ProcessDataFlow(stage, empty, url) ==
    CASE stage = "Fetching"          -> IF empty THEN "Done" ELSE "Archiving"
      [] stage = "Archiving"         -> "UpsertingRaw"
      [] stage = "UpsertingRaw"      -> "UpsertingInsights"
      [] stage = "UpsertingInsights" -> IF url THEN "CallingHook" ELSE "Done"
      [] OTHER                       -> "Done"

\* faulty variant of NextStage: a failure of store_raw_data_sql is swallowed
NextStageSwallowsRawFailure(stage, ok, empty, url) ==
    IF ~ok /\ stage # "UpsertingRaw" THEN "Failed" ELSE ProcessDataFlow(stage, empty, url)

\* faulty variant of NextStage: a failed insights stage restarts the raw stage
NextStageRetriesAfterFailure(stage, ok, empty, url) ==
    IF ~ok THEN (IF stage = "UpsertingInsights" THEN "UpsertingRaw" ELSE "Failed")
    ELSE ProcessDataFlow(stage, empty, url)

\* faulty variant of NextStage: no `if not asteroid_data: return`
NextStageNoEmptyCheck(stage, ok, empty, url) ==
    IF ~ok THEN "Failed" ELSE ProcessDataFlow(stage, FALSE, url)

\* variant of NextStage: a failure of store_raw_data_blob is caught and the
\* cycle goes on
NextStageArchiveBestEffort(stage, ok, empty, url) ==
    IF ~ok /\ stage # "Archiving" THEN "Failed" ELSE ProcessDataFlow(stage, empty, url)

\* faulty variant of NextStage: the two store calls in the other order
NextStageInsightsFirst(stage, ok, empty, url) ==
    IF ~ok THEN "Failed"
    ELSE CASE stage = "Archiving"         -> "UpsertingInsights"
           [] stage = "UpsertingInsights" -> "UpsertingRaw"
           [] stage = "UpsertingRaw"      -> IF url THEN "CallingHook" ELSE "Done"
           [] OTHER                       -> ProcessDataFlow(stage, empty, url)

\* The stage that follows `stage`; ok = the stage raised no exception.
NextStage(stage, ok, empty, url) ==
    IF ~ok THEN "Failed" ELSE ProcessDataFlow(stage, empty, url)

\* trace after moving to `next` (the hook is a step of the last stage).
Enter(tr, next) == IF next \in Stages THEN Append(tr, next) ELSE tr

\* faulty variant of call_azure_function_returns: the exception is re-raised
call_azure_function_reraises(postRaised) == ~postRaised

\* _call_azure_function returns normally, whether or not requests.post or
\* raise_for_status raised: `except Exception` only logs a warning.
call_azure_function_returns(postRaised) == TRUE

NoResponse == [status_code |-> 0, status |-> "none"]

\* faulty variant of process_asteroids: the except branch without status_code
process_asteroids_always_ok(raised) ==
    [status_code |-> 200, status |-> IF raised THEN "error" ELSE "success"]

\* function_app.process_asteroids around processor.process_data(mode=mode);
\* main() of the CLI has no handler either, the exception ends the process
\* with a non-zero exit status.
process_asteroids(raised) ==
    IF raised THEN [status_code |-> 500, status |-> "error"]
    ELSE [status_code |-> 200, status |-> "success"]

\* the answer once process_data has returned or raised
Respond(stage) ==
    IF stage = "Failed" THEN process_asteroids(TRUE)
    ELSE IF stage = "Done" THEN process_asteroids(FALSE)
    ELSE NoResponse

NoCall == [fn |-> "none"]

\* The schema (sql/schema.sql) is deployed apart from the processor: every
\* combination of keyed and unkeyed tables is an initial state.  Whether the
\* Azure Function URL is configured is a constructor argument.
Init ==
    /\ keyed \in [raw : BOOLEAN, ins : BOOLEAN]
    /\ function_url \in BOOLEAN
    /\ pc = "Idle"
    /\ cycle = 0
    /\ attempts = 0
    /\ asteroid_data = <<>>
    /\ idx = 1
    /\ pending = EmptyBag
    /\ raw_asteroid_data = EmptyBag
    /\ processed_asteroid_insights = EmptyBag
    /\ blobs = {}
    /\ trace = <<>>
    /\ failedStage = "none"
    /\ rejected = {}
    /\ hookCalls = 0
    /\ hookFailed = FALSE
    /\ atStart = [raw |-> EmptyBag, ins |-> EmptyBag, blobs |-> {}]
    /\ response = NoResponse
    /\ hookPayload = <<>>
    /\ call = NoCall

\* process_data(mode) is invoked
StartCycle ==
    /\ pc \in {"Idle", "Done", "Failed"}
    /\ cycle < MaxCycles
    /\ cycle' = cycle + 1
    /\ pc' = "Fetching"
    /\ trace' = <<"Fetching">>
    /\ attempts' = 0
    /\ asteroid_data' = <<>>
    /\ idx' = 1
    /\ pending' = EmptyBag
    /\ failedStage' = "none"
    /\ rejected' = {}
    /\ hookCalls' = 0
    /\ hookFailed' = FALSE
    /\ atStart' = [raw |-> raw_asteroid_data, ins |-> processed_asteroid_insights,
                   blobs |-> blobs]
    /\ UNCHANGED <<keyed, function_url, raw_asteroid_data,
                   processed_asteroid_insights, blobs>>
    /\ response' = Respond(pc')
    /\ UNCHANGED call
    /\ hookPayload' = <<>>

\* faulty variant of stop_after_attempt: one attempt too many
stop_after_attempt_off_by_one(attempt_number) == attempt_number > MaxAttempts

\* tenacity's stop condition of fetch_asteroid_data, asked after each failed
\* attempt with the number of attempts made
stop_after_attempt(attempt_number) == attempt_number >= MaxAttempts

\* one attempt of fetch_asteroid_data raises; tenacity retries up to MaxAttempts
FetchFail ==
    /\ pc = "Fetching"
    /\ ~stop_after_attempt(attempts)
    /\ attempts' = attempts + 1
    /\ IF stop_after_attempt(attempts + 1)
       THEN /\ pc' = NextStage("Fetching", FALSE, TRUE, function_url)
            /\ trace' = Enter(trace, pc')
            /\ failedStage' = "Fetching"
       ELSE UNCHANGED <<pc, trace, failedStage>>
    /\ UNCHANGED <<keyed, function_url, cycle, asteroid_data, idx, pending,
                   raw_asteroid_data, processed_asteroid_insights, blobs,
                   rejected, hookCalls, hookFailed, atStart>>
    /\ response' = Respond(pc')
    /\ UNCHANGED call
    /\ UNCHANGED hookPayload

\* an attempt of fetch_asteroid_data returns the enriched batch
FetchOk ==
    /\ pc = "Fetching"
    /\ ~stop_after_attempt(attempts)
    /\ \E batch \in Batches :
         /\ asteroid_data' = batch
         /\ pc' = NextStage("Fetching", TRUE, batch = <<>>, function_url)
    /\ attempts' = 0
    /\ trace' = Enter(trace, pc')
    /\ UNCHANGED <<keyed, function_url, cycle, idx, pending,
                   raw_asteroid_data, processed_asteroid_insights, blobs,
                   failedStage, rejected, hookCalls, hookFailed, atStart>>
    /\ response' = Respond(pc')
    /\ UNCHANGED call
    /\ UNCHANGED hookPayload

\* store_raw_data_blob uploads the batch
ArchiveOk ==
    /\ pc = "Archiving"
    /\ blobs' = UploadBlob(blobs, cycle)
    /\ pc' = NextStage("Archiving", TRUE, FALSE, function_url)
    /\ trace' = Enter(trace, pc')
    /\ idx' = 1
    /\ pending' = EmptyBag
    /\ UNCHANGED <<keyed, function_url, cycle, attempts, asteroid_data,
                   raw_asteroid_data, processed_asteroid_insights,
                   failedStage, rejected, hookCalls, hookFailed, atStart>>
    /\ response' = Respond(pc')
    /\ UNCHANGED call
    /\ UNCHANGED hookPayload

\* store_raw_data_blob raises (no handler in store_raw_data_blob)
ArchiveFail ==
    /\ pc = "Archiving"
    /\ pc' = NextStage("Archiving", FALSE, FALSE, function_url)
    /\ trace' = Enter(trace, pc')
    /\ failedStage' = "Archiving"
    /\ idx' = 1
    /\ pending' = EmptyBag
    /\ UNCHANGED <<keyed, function_url, cycle, attempts, asteroid_data,
                   raw_asteroid_data, processed_asteroid_insights, blobs,
                   rejected, hookCalls, hookFailed, atStart>>
    /\ response' = Respond(pc')
    /\ UNCHANGED call
    /\ UNCHANGED hookPayload


(* ---- store_raw_data_sql: the loop of lines 224-306, one record a step ---- *)

\* cursor.execute INSERT of record idx succeeds
RawExecute ==
    /\ pc = "UpsertingRaw"
    /\ idx <= Len(asteroid_data)
    /\ ~KeyViolation(keyed.raw, raw_asteroid_data, pending, asteroid_data[idx].id)
    /\ pending' = InsertRow(pending, RawValues(asteroid_data[idx], cycle))
    /\ idx' = idx + 1
    /\ UNCHANGED <<keyed, function_url, pc, cycle, attempts, asteroid_data,
                   raw_asteroid_data, processed_asteroid_insights, blobs, trace,
                   failedStage, rejected, hookCalls, hookFailed, atStart>>
    /\ response' = Respond(pc')
    /\ UNCHANGED call
    /\ UNCHANGED hookPayload

\* cursor.execute INSERT of record idx is rejected by the key:
\* except -> connection.rollback() -> raise
RawIntegrityError ==
    /\ pc = "UpsertingRaw"
    /\ idx <= Len(asteroid_data)
    /\ KeyViolation(keyed.raw, raw_asteroid_data, pending, asteroid_data[idx].id)
    /\ rejected' = rejected \cup {asteroid_data[idx].id}
    /\ raw_asteroid_data' = Rollback(raw_asteroid_data, pending)
    /\ pending' = EmptyBag
    /\ pc' = NextStage("UpsertingRaw", FALSE, FALSE, function_url)
    /\ trace' = Enter(trace, pc')
    /\ failedStage' = "UpsertingRaw"
    /\ UNCHANGED <<keyed, function_url, cycle, attempts, asteroid_data, idx,
                   processed_asteroid_insights, blobs, hookCalls, hookFailed, atStart>>
    /\ response' = Respond(pc')
    /\ UNCHANGED call
    /\ UNCHANGED hookPayload

\* the database fails under an execute or under the commit:
\* except -> connection.rollback() -> raise
RawFail ==
    /\ pc = "UpsertingRaw"
    /\ raw_asteroid_data' = Rollback(raw_asteroid_data, pending)
    /\ pending' = EmptyBag
    /\ pc' = NextStage("UpsertingRaw", FALSE, FALSE, function_url)
    /\ trace' = Enter(trace, pc')
    /\ failedStage' = "UpsertingRaw"
    /\ UNCHANGED <<keyed, function_url, cycle, attempts, asteroid_data, idx,
                   processed_asteroid_insights, blobs, rejected, hookCalls, hookFailed, atStart>>
    /\ response' = Respond(pc')
    /\ UNCHANGED call
    /\ UNCHANGED hookPayload

\* the loop is over: connection.commit()
RawCommit ==
    /\ pc = "UpsertingRaw"
    /\ idx > Len(asteroid_data)
    /\ raw_asteroid_data' = Commit(raw_asteroid_data, pending)
    /\ pending' = EmptyBag
    /\ idx' = 1
    /\ pc' = NextStage("UpsertingRaw", TRUE, FALSE, function_url)
    /\ trace' = Enter(trace, pc')
    /\ UNCHANGED <<keyed, function_url, cycle, attempts, asteroid_data,
                   processed_asteroid_insights, blobs, failedStage, rejected, hookCalls, hookFailed, atStart>>
    /\ response' = Respond(pc')
    /\ UNCHANGED call
    /\ UNCHANGED hookPayload

(* -- store_processed_insights_sql: the loop of lines 329-366, one a step -- *)

InsExecute ==
    /\ pc = "UpsertingInsights"
    /\ idx <= Len(asteroid_data)
    /\ ~KeyViolation(keyed.ins, processed_asteroid_insights, pending, asteroid_data[idx].id)
    /\ pending' = InsertRow(pending, InsightValues(asteroid_data[idx], cycle))
    /\ idx' = idx + 1
    /\ UNCHANGED <<keyed, function_url, pc, cycle, attempts, asteroid_data,
                   raw_asteroid_data, processed_asteroid_insights, blobs, trace,
                   failedStage, rejected, hookCalls, hookFailed, atStart>>
    /\ response' = Respond(pc')
    /\ UNCHANGED call
    /\ UNCHANGED hookPayload

InsIntegrityError ==
    /\ pc = "UpsertingInsights"
    /\ idx <= Len(asteroid_data)
    /\ KeyViolation(keyed.ins, processed_asteroid_insights, pending, asteroid_data[idx].id)
    /\ rejected' = rejected \cup {asteroid_data[idx].id}
    /\ processed_asteroid_insights' = Rollback(processed_asteroid_insights, pending)
    /\ pending' = EmptyBag
    /\ pc' = NextStage("UpsertingInsights", FALSE, FALSE, function_url)
    /\ trace' = Enter(trace, pc')
    /\ failedStage' = "UpsertingInsights"
    /\ UNCHANGED <<keyed, function_url, cycle, attempts, asteroid_data, idx,
                   raw_asteroid_data, blobs, hookCalls, hookFailed, atStart>>
    /\ response' = Respond(pc')
    /\ UNCHANGED call
    /\ UNCHANGED hookPayload

\* _calculate_insights, an execute or the commit raises
InsFail ==
    /\ pc = "UpsertingInsights"
    /\ processed_asteroid_insights' = Rollback(processed_asteroid_insights, pending)
    /\ pending' = EmptyBag
    /\ pc' = NextStage("UpsertingInsights", FALSE, FALSE, function_url)
    /\ trace' = Enter(trace, pc')
    /\ failedStage' = "UpsertingInsights"
    /\ UNCHANGED <<keyed, function_url, cycle, attempts, asteroid_data, idx,
                   raw_asteroid_data, blobs, rejected, hookCalls, hookFailed, atStart>>
    /\ response' = Respond(pc')
    /\ UNCHANGED call
    /\ UNCHANGED hookPayload

InsCommit ==
    /\ pc = "UpsertingInsights"
    /\ idx > Len(asteroid_data)
    /\ processed_asteroid_insights' = Commit(processed_asteroid_insights, pending)
    /\ pending' = EmptyBag
    /\ idx' = 1
    /\ pc' = NextStage("UpsertingInsights", TRUE, FALSE, function_url)
    /\ trace' = Enter(trace, pc')
    /\ UNCHANGED <<keyed, function_url, cycle, attempts, asteroid_data,
                   raw_asteroid_data, blobs, failedStage, rejected, hookCalls, hookFailed, atStart>>
    /\ response' = Respond(pc')
    /\ UNCHANGED call
    /\ UNCHANGED hookPayload

(* ---------- _call_azure_function: every exception is swallowed ---------- *)

\* faulty variant of hook_payload: the whole batch is posted
hook_payload_whole_batch(data) == data

\* json={'asteroids': asteroid_data[:10]}
hook_payload(data) ==
    SubSeq(data, 1, IF Len(data) < MaxHookRecords THEN Len(data) ELSE MaxHookRecords)

HookOk ==
    /\ pc = "CallingHook"
    /\ hookCalls' = hookCalls + 1
    /\ hookFailed' = FALSE
    /\ pc' = NextStage("CallingHook", call_azure_function_returns(FALSE), FALSE, function_url)
    /\ trace' = Enter(trace, pc')
    /\ UNCHANGED <<keyed, function_url, cycle, attempts, asteroid_data, idx,
                   pending, raw_asteroid_data, processed_asteroid_insights, blobs,
                   failedStage, rejected, atStart>>
    /\ response' = Respond(pc')
    /\ UNCHANGED call
    /\ hookPayload' = hook_payload(asteroid_data)

HookFail ==
    /\ pc = "CallingHook"
    /\ hookCalls' = hookCalls + 1
    /\ hookFailed' = TRUE
    /\ pc' = NextStage("CallingHook", call_azure_function_returns(TRUE), FALSE, function_url)
    /\ trace' = Enter(trace, pc')
    /\ failedStage' = IF pc' = "Failed" THEN "CallingHook" ELSE failedStage
    /\ UNCHANGED <<keyed, function_url, cycle, attempts, asteroid_data, idx,
                   pending, raw_asteroid_data, processed_asteroid_insights, blobs,
                   rejected, atStart>>
    /\ response' = Respond(pc')
    /\ UNCHANGED call
    /\ hookPayload' = hook_payload(asteroid_data)

Next ==
    \/ StartCycle
    \/ FetchFail
    \/ FetchOk
    \/ ArchiveOk
    \/ ArchiveFail
    \/ RawExecute
    \/ RawIntegrityError
    \/ RawFail
    \/ RawCommit
    \/ InsExecute
    \/ InsIntegrityError
    \/ InsFail
    \/ InsCommit
    \/ HookOk
    \/ HookFail

Spec == Init /\ [][Next]_vars


(* ======================= properties of the cycle ====================== *)

\* the rows of `table` whose id is `id`
RowsWithId(table, id) ==
    [r \in {q \in BagToSet(table) : q.id = id} |-> CopiesIn(r, table)]

NoDuplicateIds(table) ==
    \A r \in BagToSet(table) :
        r.id \in Ids => RowsWithId(table, r.id) = SetToBag({r})

IdsOf(table) == {r.id : r \in BagToSet(table)}

BagOfSeq(s) == [x \in Range(s) |-> Cardinality({i \in 1..Len(s) : s[i] = x})]

\* the rows one store call writes for the whole batch
RawBatch == BagOfSeq([i \in 1..Len(asteroid_data) |-> RawValues(asteroid_data[i], cycle)])
InsBatch == BagOfSeq([i \in 1..Len(asteroid_data) |-> InsightValues(asteroid_data[i], cycle)])

CycleOver == pc \in {"Done", "Failed"}

\* the cycle met no failing collaborator: it is done, or it failed on a
\* statement the key rejected
NoCollaboratorFault == failedStage = "none" \/ rejected # {}

StagesRun == Range(trace)

\* C1: each table holds at most one row per object id, and a write for an id
\* that already has a row updates that row: no INSERT of an object id is
\* rejected and none adds a second row.
C1_OneRowPerId ==
    /\ NoDuplicateIds(raw_asteroid_data)
    /\ NoDuplicateIds(processed_asteroid_insights)
    /\ rejected \subseteq {NoId}

\* C2: writing a record whose id already has a row in both tables succeeds
\* again, and the one row of that id in each table then carries the values of
\* the second write.
C2_SecondWriteWins ==
    ( /\ CycleOver
      /\ NoCollaboratorFault
      /\ Len(asteroid_data) = 1
      /\ asteroid_data[1].id \in Ids
      /\ asteroid_data[1].id \in IdsOf(atStart.raw) \cap IdsOf(atStart.ins) )
    => /\ pc = "Done"
       /\ RowsWithId(raw_asteroid_data, asteroid_data[1].id)
            = SetToBag({RawValues(asteroid_data[1], cycle)})
       /\ RowsWithId(processed_asteroid_insights, asteroid_data[1].id)
            = SetToBag({InsightValues(asteroid_data[1], cycle)})

\* C3: a store call is all-or-nothing: nothing becomes durable while the loop
\* runs, a failing call leaves its table as it was before the call, and a call
\* without failure commits the rows of the whole batch together.
C3_AllOrNothing ==
    [][ /\ (pc = "UpsertingRaw" /\ pc' = "UpsertingRaw")
            => raw_asteroid_data' = raw_asteroid_data
        /\ (pc = "UpsertingRaw" /\ failedStage' = "UpsertingRaw")
            => (raw_asteroid_data' = raw_asteroid_data /\ pending' = EmptyBag)
        /\ (pc = "UpsertingRaw" /\ pc' # "UpsertingRaw" /\ failedStage' = "none")
            => raw_asteroid_data' = raw_asteroid_data (+) RawBatch
        /\ (pc = "UpsertingInsights" /\ pc' = "UpsertingInsights")
            => processed_asteroid_insights' = processed_asteroid_insights
        /\ (pc = "UpsertingInsights" /\ failedStage' = "UpsertingInsights")
            => (processed_asteroid_insights' = processed_asteroid_insights
                /\ pending' = EmptyBag)
        /\ (pc = "UpsertingInsights" /\ pc' # "UpsertingInsights" /\ failedStage' = "none")
            => processed_asteroid_insights' = processed_asteroid_insights (+) InsBatch
      ]_vars

\* a store call failed after it had written rows, and none of them remains
C3_Witness ==
    /\ pc = "Failed"
    /\ failedStage = "UpsertingRaw"
    /\ idx > 1
    /\ raw_asteroid_data = atStart.raw

\* C4: when the raw-facts stage fails, the cycle is Failed (the exception left
\* process_data), the insights stage was never started and no insights row of
\* this cycle exists.
C4_RawFailureStopsCycle ==
    failedStage = "UpsertingRaw"
    => /\ pc = "Failed"
       /\ "UpsertingInsights" \notin StagesRun
       /\ processed_asteroid_insights = atStart.ins

\* the INSERT of a record failed inside the raw-facts stage
C4_Witness ==
    /\ failedStage = "UpsertingRaw"
    /\ idx <= Len(asteroid_data)
    /\ pc = "Failed"

StageRank(st) ==
    CASE st = "Fetching"          -> 1
      [] st = "Archiving"         -> 2
      [] st = "UpsertingRaw"      -> 3
      [] st = "UpsertingInsights" -> 4
      [] st = "Done"              -> 5
      [] OTHER                    -> 6

\* C5: within a cycle the stages are entered in the order Fetching, Archiving,
\* UpsertingRaw, UpsertingInsights, Done, none twice; Done and Failed end the
\* cycle, and after a failure no stage runs.
C5_StageOrder ==
    /\ \A i, j \in 1..Len(trace) : i < j => StageRank(trace[i]) < StageRank(trace[j])
    /\ \A i \in 1..Len(trace) : trace[i] \in {"Done", "Failed"} => i = Len(trace)
    /\ cycle > 0 => trace[1] = "Fetching"
    /\ failedStage # "none" => (pc = "Failed" /\ trace[Len(trace)] = "Failed")
    /\ pc \in Stages => trace[Len(trace)] = pc
    /\ pc = "CallingHook" => trace[Len(trace)] = "UpsertingInsights"

\* a cycle went through every stage
C5_Witness ==
    trace = <<"Fetching", "Archiving", "UpsertingRaw", "UpsertingInsights", "Done">>

\* the fetch of this cycle returned, with zero records
FetchedNothing ==
    /\ cycle > 0
    /\ pc # "Fetching"
    /\ failedStage # "Fetching"
    /\ asteroid_data = <<>>

\* C6: a fetch of zero records ends the cycle in Done at once: nothing is
\* archived, no row is written to either table and the hook is not called.
C6_EmptyFetchIsNoOp ==
    FetchedNothing
    => /\ pc = "Done"
       /\ trace = <<"Fetching", "Done">>
       /\ blobs = atStart.blobs
       /\ raw_asteroid_data = atStart.raw
       /\ processed_asteroid_insights = atStart.ins
       /\ hookCalls = 0

\* the second cycle fetched nothing while the tables hold rows
C6_Witness ==
    /\ FetchedNothing
    /\ pc = "Done"
    /\ raw_asteroid_data # EmptyBag

\* C7 as stated: a cycle whose archival step failed still attempts the
\* raw-facts upsert.
C7_ArchiveFailureDoesNotBlock ==
    (CycleOver /\ failedStage = "Archiving") => "UpsertingRaw" \in StagesRun

\* C7 as the code has it: a failure of the archival write leaves process_data
\* as an exception; the cycle is Failed, the raw-facts upsert is not attempted
\* and neither table changes.
C7_ArchiveFailureEndsCycle ==
    failedStage = "Archiving"
    => /\ pc = "Failed"
       /\ "UpsertingRaw" \notin StagesRun
       /\ raw_asteroid_data = atStart.raw
       /\ processed_asteroid_insights = atStart.ins

\* the archival write of a non-empty batch failed
C7_Witness ==
    /\ failedStage = "Archiving"
    /\ asteroid_data # <<>>
    /\ blobs = atStart.blobs

\* C8: a failure of a later stage leaves the committed earlier stages alone:
\* after a failed insights stage the raw rows of this cycle and the archival
\* object are there; after a failed raw stage the archival object is there.
C8_EarlierStagesRemain ==
    /\ failedStage = "UpsertingInsights"
         => /\ raw_asteroid_data = atStart.raw (+) RawBatch
            /\ cycle \in blobs
    /\ failedStage = "UpsertingRaw" => cycle \in blobs

\* the insights stage failed after the raw stage committed rows
C8_Witness ==
    /\ pc = "Failed"
    /\ failedStage = "UpsertingInsights"
    /\ raw_asteroid_data # atStart.raw
    /\ processed_asteroid_insights = atStart.ins

\* C9: every row of the insights table has a row of the same id in the
\* raw-facts table.
C9_InsightHasRawRow ==
    IdsOf(processed_asteroid_insights) \subseteq IdsOf(raw_asteroid_data)

\* insights rows exist and a later cycle failed in its raw stage
C9_Witness ==
    /\ processed_asteroid_insights # EmptyBag
    /\ failedStage = "UpsertingRaw"

\* the batch holds exactly one record without id; the others have distinct
\* ids that no table knows yet
OneInvalidRecord ==
    /\ Cardinality({i \in 1..Len(asteroid_data) : asteroid_data[i].id = NoId}) = 1
    /\ \A i, j \in 1..Len(asteroid_data) :
         asteroid_data[i].id = asteroid_data[j].id => i = j
    /\ \A i \in 1..Len(asteroid_data) :
         asteroid_data[i].id \notin IdsOf(atStart.raw) \cup IdsOf(atStart.ins)

\* C10: a cycle over N records of which exactly one lacks `id` ends in Done
\* and has written N-1 rows to each table.
C10_InvalidRecordDropped ==
    (CycleOver /\ NoCollaboratorFault /\ OneInvalidRecord)
    => /\ pc = "Done"
       /\ BagCardinality(raw_asteroid_data)
            = BagCardinality(atStart.raw) + Len(asteroid_data) - 1
       /\ BagCardinality(processed_asteroid_insights)
            = BagCardinality(atStart.ins) + Len(asteroid_data) - 1


\* C11: a failure of the downstream hook is not propagated: the cycle ends in
\* Done and both tables hold what the two store calls committed.
C11_HookFailureSwallowed ==
    hookFailed
    => /\ pc = "Done"
       /\ failedStage = "none"
       /\ raw_asteroid_data = atStart.raw (+) RawBatch
       /\ processed_asteroid_insights = atStart.ins (+) InsBatch

\* the hook was called, failed, and the cycle had written rows
C11_Witness ==
    /\ hookFailed
    /\ hookCalls = 1
    /\ processed_asteroid_insights # atStart.ins

\* C12: a cycle that ended in Failed is answered with status 500 and an error
\* message, a cycle that ended in Done (the zero-records cycle too) with
\* success, and nothing is answered before the cycle is over.
C12_FailureIsReported ==
    /\ pc = "Failed" => (response.status_code = 500 /\ response.status = "error")
    /\ pc = "Done" => (response.status_code = 200 /\ response.status = "success")
    /\ ~CycleOver => response = NoResponse

\* a failed cycle was answered with 500 after a successful one
C12_Witness ==
    /\ pc = "Failed"
    /\ cycle = 2
    /\ response.status_code = 500
    /\ raw_asteroid_data # EmptyBag


----------------------------------------------------------------------------
(* The pure helpers: calculate_risk_score (utils.py), the enrichment of one  *)
(* record and the insights of one record (asteroid_processor.py).            *)
(* Numbers are fixed-point integers: a diameter in 0.01 km, a miss distance  *)
(* in 1000 km, a velocity in 100 km/h, an eccentricity in 0.01, a factor in  *)
(* 0.001 and a risk score in 0.0001.                                         *)

\* how far around each threshold the inputs are sampled
Margin == 1

Around(t) == (t - Margin)..(t + Margin)

Min(a, b) == IF a < b THEN a ELSE b
Max(a, b) == IF a > b THEN a ELSE b

\* a Python value found under a key: a number, a string that float() parses,
\* any other string, None, or no such key
Num(v)    == [t |-> "num", v |-> v]
NumStr(v) == [t |-> "numstr", v |-> v]
NonNumeric == [t |-> "str", v |-> 0]
None       == [t |-> "None", v |-> 0]
Missing    == [t |-> "missing", v |-> 0]

\* a Python container: a mapping holding x under the key that is read
\* ("map"), a mapping without the nested 'kilometers' mapping ("nokm"), a
\* mapping whose 'kilometers' entry is not a mapping ("kmnotmap"), something
\* that is not a mapping ("notmap"), or no such key in the record ("absent")
Mapping(x)   == [k |-> "map", x |-> x]
NoKilometers == [k |-> "nokm", x |-> Missing]
KilometersNotMapping == [k |-> "kmnotmap", x |-> Missing]
NotMapping   == [k |-> "notmap", x |-> Missing]
Absent       == [k |-> "absent", x |-> Missing]

\* the numbers sampled: the ends of each factor's range, the ties of the
\* hazard thresholds, and the values of the examples
RiskDiameters  == Around(0) \cup Around(250) \cup Around(1000) \cup {34, -500}
RiskDistances  == Around(0) \cup Around(1000) \cup {2000, 50000}
RiskVelocities == Around(0) \cup Around(1000) \cup {250}

Values(numbers, example) ==
    {Num(n) : n \in numbers} \cup {NumStr(example), NonNumeric, None, Missing}

DiameterInputs ==
    {Mapping(x) : x \in Values(RiskDiameters, 34)}
        \cup {NoKilometers, KilometersNotMapping, NotMapping}
DistanceInputs ==
    {Mapping(x) : x \in Values(RiskDistances, 50000)} \cup {NotMapping}
VelocityInputs ==
    {Mapping(x) : x \in Values(RiskVelocities, 250)} \cup {NotMapping}

\* float(x): the number, or the exception float raises
Float(x) ==
    CASE x.t \in {"num", "numstr"} -> [err |-> "none", v |-> x.v]
      [] x.t = "str"  -> [err |-> "ValueError", v |-> 0]
      [] x.t = "None" -> [err |-> "TypeError", v |-> 0]

\* d.get(key, 0)
GetOrZero(x) == IF x.t = "missing" THEN Num(0) ELSE x

\* float(diameter_data.get('kilometers', {}).get('estimated_diameter_max', 0))
diameter_km(diameter_data) ==
    CASE diameter_data.k = "map"  -> Float(GetOrZero(diameter_data.x))
      [] diameter_data.k = "nokm" -> Float(Num(0))
      [] OTHER -> [err |-> "AttributeError", v |-> 0]

\* float(miss_distance.get('kilometers', 0)) and
\* float(velocity.get('kilometers_per_hour', 0))
float_of_get(container) ==
    IF container.k = "map" THEN Float(GetOrZero(container.x))
    ELSE [err |-> "AttributeError", v |-> 0]

\* min(diameter_km / 10.0, 1.0)
diameter_factor(d) == Min(d, 1000)

\* faulty variant of distance_factor: farther counts as more dangerous
distance_factor_farther_is_worse(m) == Min(Max(0, m), 1000)

\* max(0, 1.0 - (miss_distance_km / 1000000.0))
distance_factor(m) == Max(0, 1000 - m)

\* min(velocity_kmh / 100000.0, 1.0)
velocity_factor(v) == Min(v, 1000)

\* the weighted sum and `return min(risk_score, 1.0)`
weighted_risk_score(d, m, v) ==
    Min(4 * diameter_factor(d) + 4 * distance_factor(m) + 2 * velocity_factor(v),
        10000)

\* except (ValueError, KeyError, TypeError)
Caught == {"ValueError", "KeyError", "TypeError"}

FirstError(errs) ==
    IF \E i \in 1..Len(errs) : errs[i] # "none"
    THEN errs[CHOOSE i \in 1..Len(errs) :
                /\ errs[i] # "none"
                /\ \A j \in 1..(i - 1) : errs[j] = "none"]
    ELSE "none"

Returned(value) == [raised |-> "none", value |-> value]
Raised(err)     == [raised |-> err, value |-> 0]

calculate_risk_score(diameter_data, miss_distance, velocity) ==
    LET d == diameter_km(diameter_data)
        m == float_of_get(miss_distance)
        v == float_of_get(velocity)
        err == FirstError(<<d.err, m.err, v.err>>)
    IN  IF err = "none" THEN Returned(weighted_risk_score(d.v, m.v, v.v))
        ELSE IF err \in Caught THEN Returned(0)
        ELSE Raised(err)

\* faulty variant of hazard_level: the comparisons include the ties
hazard_level_inclusive(score) ==
    IF score >= 7000 THEN "HIGH" ELSE IF score >= 4000 THEN "MEDIUM" ELSE "LOW"

\* the hazard classification of _enrich_asteroid_data
hazard_level(score) ==
    IF score > 7000 THEN "HIGH" ELSE IF score > 4000 THEN "MEDIUM" ELSE "LOW"

\* the records _enrich_asteroid_data is given: with a first close-approach
\* event (which may lack 'miss_distance' or 'relative_velocity') or without
\* one, and with or without 'estimated_diameter'
RawAsteroids ==
    [approach : {TRUE}, diameter : DiameterInputs \cup {Absent},
     miss : DistanceInputs \cup {Absent},
     velocity : VelocityInputs \cup {Absent}]
    \cup [approach : {FALSE}, diameter : DiameterInputs \cup {Absent},
          miss : {Absent}, velocity : {Absent}]

Enriched(err, score, level) ==
    [raised |-> err, risk_score |-> score, hazard_level |-> level]

\* _enrich_asteroid_data: asteroid['estimated_diameter'],
\* approach_data['miss_distance'] and approach_data['relative_velocity'] are
\* subscripts (KeyError when absent), outside any try
enrich_asteroid_data(asteroid) ==
    IF ~asteroid.approach THEN Enriched("none", Missing, "omitted")
    ELSE LET keyErr == FirstError(
                  <<IF asteroid.diameter.k = "absent" THEN "KeyError" ELSE "none",
                    IF asteroid.miss.k = "absent" THEN "KeyError" ELSE "none",
                    IF asteroid.velocity.k = "absent" THEN "KeyError" ELSE "none">>)
             score == calculate_risk_score(asteroid.diameter, asteroid.miss,
                                           asteroid.velocity)
         IN  IF keyErr # "none" THEN Enriched(keyErr, Missing, "omitted")
             ELSE IF score.raised # "none"
                  THEN Enriched(score.raised, Missing, "omitted")
             ELSE Enriched("none", Num(score.value), hazard_level(score.value))

\* the numbers _calculate_insights is sampled on: the ties of each
\* category's thresholds and the values of the example record
InsightDiameters  == Around(10) \cup Around(100) \cup {34}
Eccentricities    == Around(10) \cup Around(30) \cup {15}
InsightVelocities == Around(200) \cup Around(500) \cup {250}
InsightDistances  == Around(1000) \cup Around(5000) \cup Around(20000) \cup {50000}
RiskScores ==
    Around(4000) \cup Around(5000) \cup Around(6000) \cup Around(8000) \cup {3000}

\* a value the code compares as it is: a number, the feed's numeric string,
\* or no such key
Compared(numbers, example) ==
    {Num(n) : n \in numbers} \cup {NumStr(example), Missing}

\* a value the code passes to float()
Parsed(numbers, example) ==
    {Num(n) : n \in numbers} \cup {NumStr(example), NonNumeric, Missing}

\* close_approach_date of the first event: a '%Y-%m-%d' date, as its distance
\* in days from today, a string strptime rejects, or no such key
ApproachDates == {Num(n) : n \in Around(0)} \cup {NonNumeric, Missing}
PastDate == Num(-1)

\* a second close-approach event, fast and very close
LaterEvent == [velocity |-> Num(99999), distance |-> Num(0)]

\* the records _calculate_insights is given; velocity and distance belong to
\* the first close-approach event
\* the record also carries the first event's 'close_approach_date' and the
\* events after the first
EnrichedAsteroids ==
    [diameter : Compared(InsightDiameters, 34),
     eccentricity : Parsed(Eccentricities, 15),
     approach : {TRUE},
     velocity : Compared(InsightVelocities, 250),
     distance : Compared(InsightDistances, 50000),
     close_approach_date : {PastDate},
     later_events : {<<>>},
     risk_score : {Num(n) : n \in RiskScores} \cup {Missing}]
    \cup [diameter : {Num(34)},
          eccentricity : {Num(15)},
          approach : {TRUE},
          velocity : Compared(InsightVelocities, 250),
          distance : Compared(InsightDistances, 50000),
          close_approach_date : ApproachDates,
          later_events : {<<>>, <<LaterEvent>>},
          risk_score : {Num(3000)}]
    \cup [diameter : Compared(InsightDiameters, 34),
          eccentricity : Parsed(Eccentricities, 15),
          approach : {FALSE},
          velocity : {Missing},
          distance : {Missing},
          close_approach_date : {Missing},
          later_events : {<<>>},
          risk_score : {Num(n) : n \in RiskScores} \cup {Missing}]

\* a value the code compares with a number as it is, without float():
\* comparing a str or None with a number raises TypeError
Plain(x) ==
    IF x.t = "num" THEN [err |-> "none", v |-> x.v]
    ELSE [err |-> "TypeError", v |-> 0]

\* faulty variant of size_category: the comparisons include the ties
size_category_inclusive(diameter) ==
    IF diameter <= 10 THEN "Small (< 100m)"
    ELSE IF diameter <= 100 THEN "Medium (100m - 1km)"
    ELSE "Large (> 1km)"

size_category(diameter) ==
    IF diameter < 10 THEN "Small (< 100m)"
    ELSE IF diameter < 100 THEN "Medium (100m - 1km)"
    ELSE "Large (> 1km)"

orbit_type(ecc) ==
    IF ecc < 10 THEN "Nearly Circular"
    ELSE IF ecc < 30 THEN "Low Eccentricity"
    ELSE "High Eccentricity"

velocity_category(velocity) ==
    IF velocity < 200 THEN "Slow"
    ELSE IF velocity < 500 THEN "Medium"
    ELSE "Fast"

distance_category(distance) ==
    IF distance < 1000 THEN "Very Close"
    ELSE IF distance < 5000 THEN "Close"
    ELSE IF distance < 20000 THEN "Moderate"
    ELSE "Far"

is_high_priority(score) == score > 5000

\* faulty variant of threat_level: the comparisons include the ties
threat_level_inclusive(score) ==
    IF score >= 8000 THEN "CRITICAL"
    ELSE IF score >= 6000 THEN "HIGH"
    ELSE IF score >= 4000 THEN "MEDIUM"
    ELSE "LOW"

threat_level(score) ==
    IF score > 8000 THEN "CRITICAL"
    ELSE IF score > 6000 THEN "HIGH"
    ELSE IF score > 4000 THEN "MEDIUM"
    ELSE "LOW"

recommended_action(level) ==
    CASE level = "CRITICAL" -> "Immediate monitoring and analysis required"
      [] level = "HIGH"     -> "Enhanced monitoring recommended"
      [] level = "MEDIUM"   -> "Standard monitoring sufficient"
      [] OTHER              -> "Routine observation"

\* faulty variant of has_close_approach: the categories are computed, from
\* the defaults, for a record without close-approach event too
has_close_approach_assumed(asteroid) == TRUE

\* 'close_approach_data' in asteroid and asteroid['close_approach_data']
has_close_approach(asteroid) == asteroid.approach

\* (approach_date - datetime.now()).days, datetime.now() being later than
\* midnight of today; None when strptime raises ValueError; no key when the
\* event has no date
days_to_approach(date) ==
    CASE date.t = "num" -> Num(date.v - 1)
      [] date.t = "str" -> None
      [] OTHER -> Missing

\* _calculate_insights: the insights dict, a key the code does not set being
\* "omitted", or the exception that leaves the method
calculate_insights(asteroid) ==
    LET diameter == Plain(GetOrZero(asteroid.diameter))
        hasEcc   == asteroid.eccentricity.t # "missing"
        ecc      == IF hasEcc THEN Float(asteroid.eccentricity)
                    ELSE [err |-> "none", v |-> 0]
        approach == has_close_approach(asteroid)
        velocity == IF approach THEN Plain(GetOrZero(asteroid.velocity))
                    ELSE [err |-> "none", v |-> 0]
        distance == IF approach THEN Plain(GetOrZero(asteroid.distance))
                    ELSE [err |-> "none", v |-> 0]
        score    == Plain(GetOrZero(asteroid.risk_score))
        err      == FirstError(<<diameter.err, ecc.err, velocity.err,
                                 distance.err, score.err>>)
    IN  IF err # "none"
        THEN [raised |-> err, size_category |-> "omitted",
              orbit_type |-> "omitted", velocity_category |-> "omitted",
              distance_category |-> "omitted", days_to_approach |-> Missing,
              is_high_priority |-> FALSE,
              threat_level |-> "omitted", recommended_action |-> "omitted"]
        ELSE [raised |-> "none",
              size_category |-> size_category(diameter.v),
              orbit_type |-> IF hasEcc THEN orbit_type(ecc.v) ELSE "omitted",
              velocity_category |->
                  IF approach THEN velocity_category(velocity.v) ELSE "omitted",
              distance_category |->
                  IF approach THEN distance_category(distance.v) ELSE "omitted",
              days_to_approach |->
                  IF approach THEN days_to_approach(asteroid.close_approach_date)
                  ELSE Missing,
              is_high_priority |-> is_high_priority(score.v),
              threat_level |-> threat_level(score.v),
              recommended_action |-> recommended_action(threat_level(score.v))]

\* the modes the entry points pass to process_data: the four choices of the
\* command line, and from the HTTP body any other value ("full" stands for a
\* string that is none of the four, "null" for a value that is no string)
Modes == {"auto", "manual-full", "manual-incremental", "manual-validation",
          "full", "null"}

\* faulty variant of days_of_mode: every mode fetches the default week
days_of_mode_always_week(mode) == 7

\* process_data: the fetch parameter chosen from the mode
days_of_mode(mode) ==
    IF mode = "manual-full" THEN 30
    ELSE IF mode = "manual-incremental" THEN 1
    ELSE 7

\* the days arguments get_near_earth_objects is sampled on
DaysValues == Around(1) \cup Around(7) \cup Around(30)

\* faulty variant of get_near_earth_objects: the API limit is not applied
get_near_earth_objects_unclamped(days) ==
    [days |-> days, start_date |-> 0 - (days - 1), end_date |-> 0]

\* NASAApiClient.get_near_earth_objects: the days used and the request
\* parameters, dates counted in days from today
get_near_earth_objects(days) ==
    LET used == IF days > 7 THEN 7 ELSE days
    IN  [days |-> used, start_date |-> 0 - (used - 1), end_date |-> 0]

\* the records validate_asteroid_data is given: 'id' and 'name' present or
\* not; 'estimated_diameter' absent, a dict or something else; and
\* 'close_approach_data' absent, a list (empty or not), or a value that is no
\* list and is truthy (a non-empty str or dict) or falsy ({}, None, 0, "")
ValidatedRecords ==
    [id : BOOLEAN, name : BOOLEAN,
     estimated_diameter : {"absent", "dict", "other"},
     close_approach_data : {"absent", "empty list", "list",
                            "truthy non-list", "falsy non-list"}]

\* bool(close_approach)
Truthy(close_approach) == close_approach \in {"list", "truthy non-list"}

\* isinstance(close_approach, list), the .get default [] being a list
IsList(close_approach) == close_approach \in {"absent", "empty list", "list"}

\* utils.validate_asteroid_data
validate_asteroid_data(asteroid) ==
    IF ~asteroid.id \/ ~asteroid.name \/ asteroid.estimated_diameter = "absent"
    THEN FALSE
    ELSE IF asteroid.estimated_diameter # "dict" THEN FALSE
    ELSE IF Truthy(asteroid.close_approach_data)
            /\ ~IsList(asteroid.close_approach_data) THEN FALSE
    ELSE TRUE

\* format_asteroid_data works on Python objects: the record holds a
\* reference to its list of close-approach events, and the list lives in the
\* heap. An event holds, for 'miss_distance' and for 'relative_velocity', the
\* value of its one unit: a string with or without thousands separators
\* that float() parses once the commas are removed, a number, any other
\* string, or no such key.
NoRef == 0
ListRef == 1
UnitValues == {NumStr(50000), Num(50000), NonNumeric, Missing}
Events == [miss_distance : UnitValues, relative_velocity : UnitValues]
EventLists == SeqsUpTo(Events, 2)

\* float(value.replace(',', '')) inside `try ... except (ValueError,
\* AttributeError): pass`: a number has no .replace and stays as it is
Coerce(value) == IF value.t = "numstr" THEN Num(value.v) ELSE value

CoerceEvent(approach) ==
    [miss_distance |-> Coerce(approach.miss_distance),
     relative_velocity |-> Coerce(approach.relative_velocity)]

\* utils.format_asteroid_data: formatted['close_approach_data'] is the list
\* object of the input (asteroid.get returns the reference, [] when absent),
\* and the loop assigns approach[key][unit] in place
format_asteroid_data(heap, asteroid) ==
    LET ref == asteroid.close_approach_data
    IN  IF ref = NoRef
        THEN [formatted |-> [close_approach_data |-> <<>>], heap |-> heap]
        ELSE LET cleaned == [i \in 1..Len(heap[ref]) |-> CoerceEvent(heap[ref][i])]
             IN  [formatted |-> [close_approach_data |-> cleaned],
                  heap |-> [heap EXCEPT ![ref] = cleaned]]

\* the events a record holds, read through the heap
EventsOf(heap, asteroid) ==
    IF asteroid.close_approach_data = NoRef THEN <<>>
    ELSE heap[asteroid.close_approach_data]

\* the record fetch_asteroid_data hands on, as _calculate_insights reads it:
\* the values under the nested keys, and the risk_score of the enrichment.
\* The feed's record has no orbital_data here and its event no date.
InsightView(asteroid, enriched) ==
    [diameter |-> IF asteroid.diameter.k = "map" THEN asteroid.diameter.x
                  ELSE Missing,
     eccentricity |-> Missing,
     approach |-> asteroid.approach,
     velocity |-> IF asteroid.velocity.k = "map" THEN asteroid.velocity.x
                  ELSE Missing,
     distance |-> IF asteroid.miss.k = "map" THEN asteroid.miss.x ELSE Missing,
     close_approach_date |-> Missing,
     later_events |-> <<>>,
     risk_score |-> enriched.risk_score]

\* faulty variant of get_hazard_level: no default for a missing key
get_hazard_level_no_default(level) == level

\* asteroid.get('hazard_level', 'LOW')
get_hazard_level(level) == IF level = "omitted" THEN "LOW" ELSE level

NoRow == [written |-> FALSE, risk_score |-> 0, hazard_level |-> "none",
          threat_level |-> "none", is_high_priority |-> FALSE]

\* the values store_processed_insights_sql binds for one record of the feed,
\* enriched by fetch_asteroid_data: no row when the enrichment raised (the
\* fetch failed) or _calculate_insights raised (the batch is rolled back),
\* .get(...) on an estimated_diameter that is no mapping included
insight_row(asteroid) ==
    LET enriched == enrich_asteroid_data(asteroid)
        insights == calculate_insights(InsightView(asteroid, enriched))
    IN  IF enriched.raised # "none" THEN NoRow
        ELSE IF asteroid.diameter.k \in {"kmnotmap", "notmap"} THEN NoRow
        ELSE IF insights.raised # "none" THEN NoRow
        ELSE [written |-> TRUE,
              risk_score |-> GetOrZero(enriched.risk_score).v,
              hazard_level |-> get_hazard_level(enriched.hazard_level),
              threat_level |-> insights.threat_level,
              is_high_priority |-> insights.is_high_priority]

\* every variable of the processing cycle
cycleVars == <<keyed, function_url, pc, cycle, attempts, asteroid_data, idx,
               pending, raw_asteroid_data, processed_asteroid_insights, blobs,
               trace, failedStage, rejected, hookCalls, hookFailed, atStart,
               response, hookPayload>>

\* a helper is called on a fresh processor, outside any cycle
InitPure ==
    /\ keyed = [raw |-> TRUE, ins |-> TRUE]
    /\ function_url = FALSE
    /\ pc = "Idle"
    /\ cycle = 0
    /\ attempts = 0
    /\ asteroid_data = <<>>
    /\ idx = 1
    /\ pending = EmptyBag
    /\ raw_asteroid_data = EmptyBag
    /\ processed_asteroid_insights = EmptyBag
    /\ blobs = {}
    /\ trace = <<>>
    /\ failedStage = "none"
    /\ rejected = {}
    /\ hookCalls = 0
    /\ hookFailed = FALSE
    /\ atStart = [raw |-> EmptyBag, ins |-> EmptyBag, blobs |-> {}]
    /\ response = NoResponse
    /\ hookPayload = <<>>
    /\ call = NoCall

CallRiskScore ==
    /\ call = NoCall
    /\ \E diameter_data \in DiameterInputs, miss_distance \in DistanceInputs,
          velocity \in VelocityInputs :
          call' = [fn |-> "calculate_risk_score",
                   args |-> <<diameter_data, miss_distance, velocity>>,
                   result |-> calculate_risk_score(diameter_data, miss_distance,
                                                   velocity)]
    /\ UNCHANGED cycleVars

CallEnrich ==
    /\ call = NoCall
    /\ \E asteroid \in RawAsteroids :
          call' = [fn |-> "_enrich_asteroid_data",
                   args |-> <<asteroid>>,
                   result |-> enrich_asteroid_data(asteroid)]
    /\ UNCHANGED cycleVars

CallInsights ==
    /\ call = NoCall
    /\ \E asteroid \in EnrichedAsteroids :
          call' = [fn |-> "_calculate_insights",
                   args |-> <<asteroid>>,
                   result |-> calculate_insights(asteroid)]
    /\ UNCHANGED cycleVars

\* process_data up to the request fetch_asteroid_data(days) sends to the feed
CallFetchForMode ==
    /\ call = NoCall
    /\ \E mode \in Modes :
          call' = [fn |-> "process_data",
                   args |-> <<mode>>,
                   result |-> [days |-> days_of_mode(mode),
                               request |-> get_near_earth_objects(days_of_mode(mode))]]
    /\ UNCHANGED cycleVars

CallGetNearEarthObjects ==
    /\ call = NoCall
    /\ \E days \in DaysValues :
          call' = [fn |-> "get_near_earth_objects",
                   args |-> <<days>>,
                   result |-> get_near_earth_objects(days)]
    /\ UNCHANGED cycleVars

CallValidate ==
    /\ call = NoCall
    /\ \E asteroid \in ValidatedRecords :
          call' = [fn |-> "validate_asteroid_data",
                   args |-> <<asteroid>>,
                   result |-> validate_asteroid_data(asteroid)]
    /\ UNCHANGED cycleVars

CallFormat ==
    /\ call = NoCall
    /\ \E events \in EventLists, ref \in {NoRef, ListRef} :
          LET heap == [a \in {ListRef} |-> events]
              asteroid == [close_approach_data |-> ref]
          IN  call' = [fn |-> "format_asteroid_data",
                       args |-> <<heap, asteroid>>,
                       result |-> format_asteroid_data(heap, asteroid)]
    /\ UNCHANGED cycleVars

CallInsightRow ==
    /\ call = NoCall
    /\ \E asteroid \in RawAsteroids :
          call' = [fn |-> "store_processed_insights_sql",
                   args |-> <<asteroid>>,
                   result |-> insight_row(asteroid)]
    /\ UNCHANGED cycleVars

NextPure ==
    \/ CallInsightRow
    \/ CallFormat
    \/ CallValidate
    \/ CallRiskScore
    \/ CallEnrich
    \/ CallInsights
    \/ CallFetchForMode
    \/ CallGetNearEarthObjects

SpecPure == InitPure /\ [][NextPure]_vars

----------------------------------------------------------------------------
(* One call of store_raw_data_sql or store_processed_insights_sql, statement *)
(* by statement, every call on the connection or the cursor being able to    *)
(* raise. The call in progress is kept in `call`.                            *)

StoreFunctions == {"store_raw_data_sql", "store_processed_insights_sql"}

InStore(at) == call.fn \in StoreFunctions /\ call.pc = at

\* the call is entered with a batch of n records
StoreBegin ==
    /\ call = NoCall
    /\ \E fn \in StoreFunctions, n \in 0..MaxBatch :
          call' = [fn |-> fn, n |-> n, pc |-> "connect", i |-> 0,
                   connection |-> "none", cursor |-> "none",
                   commits |-> 0, rollbacks |-> 0,
                   raising |-> FALSE, outcome |-> "running"]
    /\ UNCHANGED cycleVars

\* connection = self._get_sql_connection(), before the try
StoreConnect ==
    /\ InStore("connect")
    /\ \E ok \in BOOLEAN :
          call' = IF ok
                  THEN [call EXCEPT !.connection = "open", !.pc = "cursor"]
                  ELSE [call EXCEPT !.pc = "end", !.outcome = "raised"]
    /\ UNCHANGED cycleVars

\* cursor = connection.cursor(), before the try
StoreCursor ==
    /\ InStore("cursor")
    /\ \E ok \in BOOLEAN :
          call' = IF ok
                  THEN [call EXCEPT !.cursor = "open", !.pc = "loop"]
                  ELSE [call EXCEPT !.pc = "end", !.outcome = "raised"]
    /\ UNCHANGED cycleVars

\* one iteration of the loop: the values are built and cursor.execute runs
StoreExecute ==
    /\ InStore("loop")
    /\ call.i < call.n
    /\ \E ok \in BOOLEAN :
          call' = IF ok
                  THEN [call EXCEPT !.i = call.i + 1]
                  ELSE [call EXCEPT !.pc = "except"]
    /\ UNCHANGED cycleVars

\* connection.commit() after the loop
StoreCommit ==
    /\ InStore("loop")
    /\ call.i = call.n
    /\ \E ok \in BOOLEAN :
          call' = [call EXCEPT !.commits = call.commits + 1,
                               !.pc = IF ok THEN "finally" ELSE "except"]
    /\ UNCHANGED cycleVars

\* except Exception: connection.rollback(); raise. Whether rollback returns
\* or raises, an exception is on its way out and the finally clause runs
StoreRollback ==
    /\ InStore("except")
    /\ call' = [call EXCEPT !.rollbacks = call.rollbacks + 1,
                            !.raising = TRUE, !.pc = "finally"]
    /\ UNCHANGED cycleVars

\* finally: cursor.close(); when it raises, connection.close() is skipped
StoreCloseCursor ==
    /\ InStore("finally")
    /\ \E ok \in BOOLEAN :
          call' = IF ok
                  THEN [call EXCEPT !.cursor = "closed", !.pc = "close"]
                  ELSE [call EXCEPT !.pc = "end", !.outcome = "raised"]
    /\ UNCHANGED cycleVars

\* finally: connection.close(), after which the call returns or raises
StoreCloseConnection ==
    /\ InStore("close")
    /\ \E ok \in BOOLEAN :
          call' = IF ok
                  THEN [call EXCEPT !.connection = "closed", !.pc = "end",
                                    !.outcome = IF call.raising THEN "raised"
                                                ELSE "returned"]
                  ELSE [call EXCEPT !.pc = "end", !.outcome = "raised"]
    /\ UNCHANGED cycleVars

NextStore ==
    \/ StoreBegin
    \/ StoreConnect
    \/ StoreCursor
    \/ StoreExecute
    \/ StoreCommit
    \/ StoreRollback
    \/ StoreCloseCursor
    \/ StoreCloseConnection

SpecStore == InitPure /\ [][NextStore]_vars

IsNum(x) == x.t = "num"
NumericCall ==
    /\ call.fn = "calculate_risk_score"
    /\ \A i \in 1..3 : call.args[i].k = "map" /\ IsNum(call.args[i].x)

\* C13: for every numeric triple the score lies in [0.0, 1.0], the sum being
\* clamped at 0 and at 1.
C13_ScoreInUnitInterval ==
    NumericCall => (call.result.value >= 0 /\ call.result.value <= 10000)

\* {} as seen by each of the three reads
EmptyDiameter == NoKilometers
EmptyMapping  == Mapping(Missing)

\* C14: calculate_risk_score({}, {}, {}) returns exactly 0.0.
C14_EmptyInputsScoreZero ==
    (/\ call.fn = "calculate_risk_score"
     /\ call.args = <<EmptyDiameter, EmptyMapping, EmptyMapping>>)
    => call.result = Returned(0)

\* an argument with a missing or non-numeric value, or that is no mapping
Invalid(container) ==
    \/ container.k # "map"
    \/ container.x.t \in {"str", "None", "missing"}

\* C15: calculate_risk_score never raises and returns 0.0 whenever a value is
\* missing or not numeric or a container is not a mapping; the enrichment of a
\* record never raises because of its risk score.
C15_NeverRaises ==
    /\ call.fn = "calculate_risk_score"
       => /\ call.result.raised = "none"
          /\ (\E i \in 1..3 : Invalid(call.args[i])) => call.result.value = 0
    /\ call.fn = "_enrich_asteroid_data" => call.result.raised = "none"

\* C16: with the other two inputs fixed, the score does not decrease as the
\* diameter or the velocity grows and does not increase as the miss distance
\* grows.
C16_Monotone ==
    NumericCall =>
      LET d == call.args[1].x.v
          m == call.args[2].x.v
          v == call.args[3].x.v
          score(a, b, c) ==
              calculate_risk_score(Mapping(Num(a)), Mapping(Num(b)),
                                   Mapping(Num(c))).value
      IN  /\ \A d2 \in RiskDiameters : d2 >= d => score(d2, m, v) >= call.result.value
          /\ \A v2 \in RiskVelocities : v2 >= v => score(d, m, v2) >= call.result.value
          /\ \A m2 \in RiskDistances : m2 >= m => score(d, m2, v) <= call.result.value

\* a numeric call strictly inside every factor's range, where each input
\* changes the score
C16_Witness ==
    /\ NumericCall
    /\ call.args[1].x.v = 34
    /\ call.args[2].x.v = 1
    /\ call.args[3].x.v = 250
    /\ call.result.value = 4632


\* the record of test_calculate_insights: max diameter 0.34 km, miss distance
\* 50,000,000 km, velocity 25,000 km/h, eccentricity 0.15, risk_score 0.3
ExampleRecord ==
    [diameter |-> Num(34), eccentricity |-> Num(15), approach |-> TRUE,
     velocity |-> Num(250), distance |-> Num(50000),
     close_approach_date |-> PastDate, later_events |-> <<>>,
     risk_score |-> Num(3000)]

\* C17: for the example record _calculate_insights gives size_category
\* "Medium (100m - 1km)", orbit_type "Low Eccentricity", distance_category
\* "Far", velocity_category "Slow", threat_level "LOW" and is_high_priority
\* false.
C17_ExampleInsights ==
    (call.fn = "_calculate_insights" /\ call.args[1] = ExampleRecord)
    => /\ call.result.raised = "none"
       /\ call.result.size_category = "Medium (100m - 1km)"
       /\ call.result.orbit_type = "Low Eccentricity"
       /\ call.result.distance_category = "Far"
       /\ call.result.velocity_category = "Slow"
       /\ call.result.threat_level = "LOW"
       /\ call.result.is_high_priority = FALSE

InsightsReturned == call.fn = "_calculate_insights" /\ call.result.raised = "none"

\* asteroid.get('risk_score', 0.0) of the call being looked at
GivenRiskScore ==
    IF call.args[1].risk_score.t = "missing" THEN 0 ELSE call.args[1].risk_score.v

\* C18: threat_level is CRITICAL above 0.8, else HIGH above 0.6, else MEDIUM
\* above 0.4, else LOW, the ties 0.8, 0.6 and 0.4 falling in the lower level;
\* is_high_priority is true exactly above 0.5; recommended_action is the fixed
\* string of the threat_level.
C18_ThreatLevelStrict ==
    InsightsReturned =>
      LET rs == GivenRiskScore
          r  == call.result
      IN  /\ r.threat_level = "CRITICAL" <=> rs > 8000
          /\ r.threat_level = "HIGH" <=> (rs > 6000 /\ rs <= 8000)
          /\ r.threat_level = "MEDIUM" <=> (rs > 4000 /\ rs <= 6000)
          /\ r.threat_level = "LOW" <=> rs <= 4000
          /\ r.is_high_priority <=> rs > 5000
          /\ r.threat_level = "CRITICAL"
             => r.recommended_action = "Immediate monitoring and analysis required"
          /\ r.threat_level = "HIGH"
             => r.recommended_action = "Enhanced monitoring recommended"
          /\ r.threat_level = "MEDIUM"
             => r.recommended_action = "Standard monitoring sufficient"
          /\ r.threat_level = "LOW"
             => r.recommended_action = "Routine observation"

\* a risk_score of exactly 0.8 was classified
C18_Witness ==
    /\ InsightsReturned
    /\ GivenRiskScore = 8000
    /\ call.result.threat_level = "HIGH"
    /\ call.result.is_high_priority

EnrichScored ==
    /\ call.fn = "_enrich_asteroid_data"
    /\ call.result.raised = "none"
    /\ call.result.risk_score.t = "num"

\* C19: hazard_level is HIGH above 0.7, else MEDIUM above 0.4, else LOW;
\* exactly 0.7 gives MEDIUM and exactly 0.4 gives LOW.
C19_HazardLevelStrict ==
    EnrichScored =>
      LET rs == call.result.risk_score.v
          h  == call.result.hazard_level
      IN  /\ h = "HIGH" <=> rs > 7000
          /\ h = "MEDIUM" <=> (rs > 4000 /\ rs <= 7000)
          /\ h = "LOW" <=> rs <= 4000

\* the enrichment scored a record exactly 0.7
C19_Witness ==
    /\ EnrichScored
    /\ call.result.risk_score.v = 7000
    /\ call.result.hazard_level = "MEDIUM"

\* C20: size_category is Small below 0.1, else Medium below 1, else Large
\* (0.1 is Medium, 1 is Large); orbit_type is Nearly Circular below 0.1, else
\* Low Eccentricity below 0.3, else High Eccentricity (0.3 is High).
C20_SizeAndOrbitStrict ==
    InsightsReturned =>
      LET a == call.args[1]
          d == IF a.diameter.t = "missing" THEN 0 ELSE a.diameter.v
          e == a.eccentricity.v
          r == call.result
      IN  /\ r.size_category = "Small (< 100m)" <=> d < 10
          /\ r.size_category = "Medium (100m - 1km)" <=> (d >= 10 /\ d < 100)
          /\ r.size_category = "Large (> 1km)" <=> d >= 100
          /\ a.eccentricity.t # "missing"
             => /\ r.orbit_type = "Nearly Circular" <=> e < 10
                /\ r.orbit_type = "Low Eccentricity" <=> (e >= 10 /\ e < 30)
                /\ r.orbit_type = "High Eccentricity" <=> e >= 30

\* a diameter of exactly 0.1 km with an eccentricity of exactly 0.3
C20_Witness ==
    /\ InsightsReturned
    /\ call.args[1].diameter = Num(10)
    /\ call.args[1].eccentricity = Num(30)
    /\ call.result.size_category = "Medium (100m - 1km)"
    /\ call.result.orbit_type = "High Eccentricity"


C22_ModeDeterminesWindow ==
    call.fn = "process_data" =>
      LET mode == call.args[1]
          days == call.result.days
      IN  /\ mode = "auto" => days = 7
          /\ mode = "manual-full" => days = 30
          /\ mode = "manual-incremental" => days = 1
          /\ mode = "manual-validation" => days = 7
          /\ days \in {1, 7, 30}

\* a cycle in full mode asked for 30 days
C22_Witness ==
    /\ call.fn = "process_data"
    /\ call.args[1] = "manual-full"
    /\ call.result.days = 30


\* C23: validate_asteroid_data rejects a record exactly when id, name or
\* estimated_diameter is absent, or estimated_diameter is not a mapping, or
\* close_approach_data is present and is not a sequence.
C23_ValidateExact ==
    call.fn = "validate_asteroid_data" =>
      LET a == call.args[1]
      IN  ~call.result
          <=> \/ ~a.id
              \/ ~a.name
              \/ a.estimated_diameter = "absent"
              \/ a.estimated_diameter # "dict"
              \/ a.close_approach_data \in {"truthy non-list", "falsy non-list"}


\* C24: format_asteroid_data has no side effects: after the call the input
\* record, the miss_distance and relative_velocity values of its
\* close-approach events included, is unchanged.
C24_FormatLeavesInputUnchanged ==
    call.fn = "format_asteroid_data" =>
      EventsOf(call.result.heap, call.args[2]) = EventsOf(call.args[1], call.args[2])


\* C25: a failing feed is retried a bounded number of times and then
\* surfaced: the feed is called at most 3 times per cycle, every call that
\* keeps the cycle in Fetching is a failed one that uses up an attempt (so the
\* stage ends after at most 3 calls), the first successful call ends the
\* stage, and after the third failure the cycle is Failed with nothing
\* archived and no row written.
C25_BoundedFetchRetry ==
    [][/\ attempts' <= 3
       /\ (pc = "Fetching" /\ pc' = "Fetching") => attempts' = attempts + 1
       /\ (pc = "Fetching" /\ pc' \notin {"Fetching", "Failed"})
          => /\ attempts < 3
             /\ pc' \in {"Archiving", "Done"}
       /\ (pc = "Fetching" /\ pc' = "Failed")
          => /\ attempts' = 3
             /\ failedStage' = "Fetching"
       /\ failedStage' = "Fetching"
          => /\ pc' = "Failed"
             /\ blobs' = atStart'.blobs
             /\ raw_asteroid_data' = atStart'.raw
             /\ processed_asteroid_insights' = atStart'.ins]_vars

\* the second cycle gave up after three failed calls
C25_Witness ==
    /\ pc = "Failed"
    /\ failedStage = "Fetching"
    /\ attempts = 3
    /\ cycle = 2
    /\ raw_asteroid_data # EmptyBag


\* the number of dates of the inclusive range a request asks for
WindowDays(request) == request.end_date - request.start_date + 1

RowWritten == call.fn = "store_processed_insights_sql" /\ call.result.written

\* C27: in every insights row written, hazard_level HIGH implies threat_level
\* HIGH or CRITICAL and is_high_priority true; threat_level LOW implies
\* hazard_level LOW and is_high_priority false; and a record without
\* close-approach event is stored with risk_score 0.0, hazard_level LOW and
\* threat_level LOW.
C27_RowFieldsAgree ==
    RowWritten =>
      LET r == call.result
      IN  /\ r.hazard_level = "HIGH"
             => (r.threat_level \in {"HIGH", "CRITICAL"} /\ r.is_high_priority)
          /\ r.threat_level = "LOW"
             => (r.hazard_level = "LOW" /\ ~r.is_high_priority)
          /\ ~call.args[1].approach
             => /\ r.risk_score = 0
                /\ r.hazard_level = "LOW"
                /\ r.threat_level = "LOW"

\* a row of hazard HIGH that is not CRITICAL
C27_Witness ==
    /\ RowWritten
    /\ call.result.hazard_level = "HIGH"
    /\ call.result.threat_level = "HIGH"
    /\ call.result.is_high_priority


\* C28: every store call that obtained a connection ends with exactly one of
\* commit or rollback and with its cursor and connection closed, whether it
\* returns or raises.
C28_OneOutcomeAndClosed ==
    (/\ call.fn \in StoreFunctions
     /\ call.pc = "end"
     /\ call.connection # "none")
    => /\ call.commits + call.rollbacks = 1
       /\ call.cursor = "closed"
       /\ call.connection = "closed"


\* C29: the hook is called only after the raw-facts upsert and the
\* derived-insights upsert of the cycle have committed, only when a function
\* URL is configured, at most once per cycle, and with at most the first 10
\* records of the batch.
C29_HookLastAndBounded ==
    /\ hookCalls <= 1
    /\ (hookCalls = 0 /\ pc # "CallingHook") => hookPayload = <<>>
    /\ (hookCalls > 0 \/ pc = "CallingHook")
       => /\ function_url
          /\ raw_asteroid_data = atStart.raw (+) RawBatch
          /\ processed_asteroid_insights = atStart.ins (+) InsBatch
          /\ {"UpsertingRaw", "UpsertingInsights"} \subseteq StagesRun
    /\ hookCalls > 0
       => /\ Len(hookPayload) <= 10
          /\ Len(hookPayload) = IF Len(asteroid_data) < 10 THEN Len(asteroid_data)
                                ELSE 10
          /\ \A i \in 1..Len(hookPayload) : hookPayload[i] = asteroid_data[i]

\* the hook was called for a batch of more than 10 records
C29_Witness ==
    /\ hookCalls = 1
    /\ Len(asteroid_data) > 10
    /\ Len(hookPayload) = 10
    /\ pc = "Done"


----------------------------------------------------------------------------
(* utils.retry_on_failure: one call of the wrapper it returns, the wrapped   *)
(* function being free to return or to raise at every call. The call in      *)
(* progress is kept in `call`; log lists how each call of func ended.        *)

\* the largest max_retries tried; the default of the parameter is 3
MaxRetriesTried == 3

\* what func can raise
FuncExceptions == {"ValueError", "ConnectionError"}

\* faulty variant of range_stop: one pass too many
range_stop_one_more(max_retries) == max_retries + 2

\* for attempt in range(max_retries + 1)
range_stop(max_retries) == max_retries + 1

InRetry == call.fn = "retry_on_failure" /\ call.outcome = "running"

\* wrapper(*args, **kwargs) is entered: last_exception = None
RetryBegin ==
    /\ call = NoCall
    /\ \E max_retries \in (-1)..MaxRetriesTried :
          call' = [fn |-> "retry_on_failure", max_retries |-> max_retries,
                   attempt |-> 0, log |-> <<>>, last_exception |-> "None",
                   outcome |-> "running", value |-> "none"]
    /\ UNCHANGED cycleVars

\* try: return func(*args, **kwargs)
RetryCallReturns ==
    /\ InRetry
    /\ call.attempt < range_stop(call.max_retries)
    /\ call' = [call EXCEPT !.log = Append(call.log, "ok"),
                            !.outcome = "returned", !.value = "result"]
    /\ UNCHANGED cycleVars

\* except Exception as e: last_exception = e, then the next pass of the loop
\* (after time.sleep(delay) when a retry is left)
RetryCallRaises ==
    /\ InRetry
    /\ call.attempt < range_stop(call.max_retries)
    /\ \E e \in FuncExceptions :
          call' = [call EXCEPT !.log = Append(call.log, e),
                               !.last_exception = e,
                               !.attempt = call.attempt + 1]
    /\ UNCHANGED cycleVars

\* raise last_exception after the loop; `raise None` is a TypeError
RetryExhausted ==
    /\ InRetry
    /\ call.attempt >= range_stop(call.max_retries)
    /\ call' = [call EXCEPT !.outcome = "raised",
                            !.value = IF call.last_exception = "None"
                                      THEN "TypeError"
                                      ELSE call.last_exception]
    /\ UNCHANGED cycleVars

NextRetry ==
    \/ RetryBegin
    \/ RetryCallReturns
    \/ RetryCallRaises
    \/ RetryExhausted

SpecRetry == InitPure /\ [][NextRetry]_vars

\* C30: the wrapper calls func at most max_retries + 1 times, stops at the
\* first call that succeeds and returns its result, and when every call
\* failed raises the exception of the last call; each pass of its loop makes
\* one call, so it ends after at most max_retries + 1 passes.
C30_RetryBounded ==
    call.fn = "retry_on_failure" =>
      LET calls == Len(call.log)
      IN  /\ calls <= Max(0, call.max_retries + 1)
          /\ \A i \in 1..(calls - 1) : call.log[i] # "ok"
          /\ call.outcome = "running"
             => (call.attempt = calls /\ \A i \in 1..calls : call.log[i] # "ok")
          /\ call.outcome = "returned"
             => (call.log[calls] = "ok" /\ call.value = "result")
          /\ (call.outcome = "raised" /\ calls > 0)
             => /\ calls = call.max_retries + 1
                /\ call.log[calls] # "ok"
                /\ call.value = call.log[calls]

\* all max_retries + 1 calls failed and the last exception, different from
\* the first, was raised
C30_Witness ==
    /\ call.fn = "retry_on_failure"
    /\ call.outcome = "raised"
    /\ call.max_retries = 2
    /\ Len(call.log) = 3
    /\ call.log[1] = "ValueError"
    /\ call.value = "ConnectionError"

====
